---- MODULE Spec2Model ----
(***************************************************************************)
(* Model of toy_payments_engine: the per-account ledger of                 *)
(* src/src/account.rs (Account) and src/src/transaction.rs (Transaction),  *)
(* and the run of src/src/main.rs that fills the ledgers, processes each   *)
(* in a thread of its own and writes the summary.                          *)
(*                                                                         *)
(* A Decimal is modelled as an integer number of units of 0.00001, one     *)
(* digit finer than the four digits Account::round keeps, so that rounding *)
(* is a real operation: 5 is 0.00005, 10 is 0.0001.                        *)
(***************************************************************************)
EXTENDS Integers, Sequences, FiniteSets

\* ---------------------------------------------------------------- bounds

\* Longest history (Account.transactions) that Spec builds.
MaxLen == 3

\* Longest history that SpecLong builds: one record more, for the cases that
\* take four records.
LongLen == MaxLen + 1

\* Number of times process_transactions() is called on the ledger.
MaxCalls == 2

\* Longest input file (in rows) that a run of main reads.
MaxRows == 3

\* Client ids carried by the rows of the input file.
MainClients == {1, 2}

\* Transaction ids carried by the records.
TxIds == {1, 2}

\* Amounts of Deposit and Withdrawal records: 0.00005 and 0.0001.
Amounts == {5, 10}

\* Amounts carried by Dispute, Resolve and Chargeback records: empty (the
\* default, zero) or 0.0001.
RefAmounts == {0, 10}

\* ------------------------------------------------------------- constants

\* One unit of the fourth decimal digit (round_dp(4)), in model units.
Ulp == 10

\* ------------------------------------------------------------ data model

MoneyKinds == {"deposit", "withdrawal"}

RefKinds == {"dispute", "resolve", "chargeback"}

\* Transaction::new: an empty kind and a zero amount.
Transaction_new(id) ==
    [type |-> "", id |-> id, amount |-> 0]

\* The records a caller appends: the five kinds, and the default record,
\* whose kind no arm of the match recognises.
Records ==
    [type : MoneyKinds, id : TxIds, amount : Amounts]
        \cup [type : RefKinds, id : TxIds, amount : RefAmounts]
        \cup {Transaction_new(id) : id \in TxIds}

\* Account::new
Account_new ==
    [available |-> 0, held |-> 0, total |-> 0, locked |-> FALSE,
     transactions |-> <<>>]

\* The serialized part of an account: what a record may change.
Bal(acc) ==
    [available |-> acc.available, held |-> acc.held, total |-> acc.total,
     locked |-> acc.locked]

\* ------------------------------------------------------------ operations

RECURSIVE Scan_last(_, _, _)
\* A scan that keeps the last match in place of the first.
Scan_last(txs, id, k) ==
    IF k > Len(txs) THEN <<>>
    ELSE LET rest == Scan_last(txs, id, k + 1)
         IN  IF rest # <<>> THEN rest
             ELSE IF txs[k].id = id THEN <<txs[k]>>
             ELSE <<>>

RECURSIVE Scan(_, _, _)
\* The loop of get_transaction_by_id from position k on: <<t>> is Some(t),
\* <<>> is None.
Scan(txs, id, k) ==
    IF k > Len(txs) THEN <<>>
    ELSE IF txs[k].id = id THEN <<txs[k]>>
    ELSE Scan(txs, id, k + 1)

get_transaction_by_id(acc, id) ==
    Scan(acc.transactions, id, 1)

\* Decimal::round_dp(4): to the nearest multiple of Ulp, a tie to the even
\* digit.
round_dp(x) ==
    LET r == x % Ulp
        lo == x - r
    IN  IF 2 * r < Ulp THEN lo
        ELSE IF 2 * r > Ulp THEN lo + Ulp
        ELSE IF (lo \div Ulp) % 2 = 0 THEN lo ELSE lo + Ulp

round(acc) ==
    [acc EXCEPT !.available = round_dp(@), !.held = round_dp(@),
                !.total = round_dp(@)]

\* A deposit that credits available and forgets total.
deposit_forgets_total(acc, tx) ==
    [acc EXCEPT !.available = @ + tx.amount]

deposit(acc, tx) ==
    [acc EXCEPT !.available = @ + tx.amount, !.total = @ + tx.amount]

\* A withdrawal guarded by >= 0 in place of > 0.
withdrawal_allows_zero(acc, tx) ==
    IF acc.available - tx.amount >= 0
    THEN [acc EXCEPT !.available = @ - tx.amount, !.total = @ - tx.amount]
    ELSE acc

\* A withdrawal that debits available and forgets total.
withdrawal_forgets_total(acc, tx) ==
    IF acc.available - tx.amount > 0
    THEN [acc EXCEPT !.available = @ - tx.amount]
    ELSE acc

\* A withdrawal with no guard at all.
withdrawal_unguarded(acc, tx) ==
    [acc EXCEPT !.available = @ - tx.amount, !.total = @ - tx.amount]

\* A withdrawal that a locked account rejects.
withdrawal_rejects_locked(acc, tx) ==
    IF ~acc.locked /\ acc.available - tx.amount > 0
    THEN [acc EXCEPT !.available = @ - tx.amount, !.total = @ - tx.amount]
    ELSE acc

withdrawal(acc, tx) ==
    IF acc.available - tx.amount > 0
    THEN [acc EXCEPT !.available = @ - tx.amount, !.total = @ - tx.amount]
    ELSE acc

\* A dispute that is skipped while funds are already held.
dispute_once(acc, tx) ==
    LET found == get_transaction_by_id(acc, tx.id)
    IN  IF found # <<>> /\ acc.held = 0
        THEN [acc EXCEPT !.available = @ - found[1].amount,
                         !.held = @ + found[1].amount]
        ELSE acc

dispute(acc, tx) ==
    LET found == get_transaction_by_id(acc, tx.id)
    IN  IF found # <<>>
        THEN [acc EXCEPT !.available = @ - found[1].amount,
                         !.held = @ + found[1].amount]
        ELSE acc

\* A resolve that releases the amount its own record carries.
resolve_own_amount(acc, tx) ==
    LET found == get_transaction_by_id(acc, tx.id)
    IN  IF found # <<>>
        THEN [acc EXCEPT !.available = @ + tx.amount,
                         !.held = @ - tx.amount]
        ELSE acc

\* A resolve that also unlocks the account.
resolve_unlocks(acc, tx) ==
    LET found == get_transaction_by_id(acc, tx.id)
    IN  IF found # <<>>
        THEN [acc EXCEPT !.available = @ + found[1].amount,
                         !.held = @ - found[1].amount,
                         !.locked = FALSE]
        ELSE acc

resolve(acc, tx) ==
    LET found == get_transaction_by_id(acc, tx.id)
    IN  IF found # <<>>
        THEN [acc EXCEPT !.available = @ + found[1].amount,
                         !.held = @ - found[1].amount]
        ELSE acc

chargeback(acc, tx) ==
    LET found == get_transaction_by_id(acc, tx.id)
    IN  IF found # <<>>
        THEN [acc EXCEPT !.total = @ - found[1].amount,
                         !.held = @ - found[1].amount,
                         !.locked = TRUE]
        ELSE acc

\* A match whose catch-all arm falls into chargeback.
Dispatch_other_chargeback(acc, tx) ==
    CASE tx.type = "deposit" -> deposit(acc, tx)
      [] tx.type = "withdrawal" -> withdrawal(acc, tx)
      [] tx.type = "dispute" -> dispute(acc, tx)
      [] tx.type = "resolve" -> resolve(acc, tx)
      [] OTHER -> chargeback(acc, tx)

\* The match of process_transactions on the kind of one record.
Dispatch(acc, tx) ==
    CASE tx.type = "deposit" -> deposit(acc, tx)
      [] tx.type = "withdrawal" -> withdrawal(acc, tx)
      [] tx.type = "dispute" -> dispute(acc, tx)
      [] tx.type = "resolve" -> resolve(acc, tx)
      [] tx.type = "chargeback" -> chargeback(acc, tx)
      [] OTHER -> acc

\* ----------------------------------------------------------------- state

VARIABLES
    account,    \* the Account: balances, locked and transactions
    pc,         \* "idle": no call in progress; "loop": inside the for loop
    calls,      \* process_transactions() calls begun so far
    clone,      \* the local `transactions` of the call in progress
    i,          \* records of clone the loop has dispatched
    snap,       \* Bal(account) at the start of the call and after each record
    prior,      \* snap as the previous call left it
    probe,      \* the last direct get_transaction_by_id call: <<id, result>>
    input,      \* main: the rows of the input file not read yet
    accounts,   \* main: the BTreeMap from client id to Account
    mpc,        \* main: "populate", "spawn", "join", "write", "done"
    task,       \* main: per client, the thread that processes its account
    joined,     \* main: the clients whose handle has been joined
    finished,   \* main: the clients in the order their threads finished
    out         \* main: the rows write_account_summary has written

\* The state of the single ledger.
lvars == <<account, pc, calls, clone, i, snap, prior, probe>>

\* The state of a run of main.
mvars == <<input, accounts, mpc, task, joined, finished, out>>

vars == <<account, pc, calls, clone, i, snap, prior, probe,
          input, accounts, mpc, task, joined, finished, out>>

\* No run of main: the ledger is driven directly, as the unit tests do.
MainOff ==
    /\ input = <<>>
    /\ accounts = <<>>
    /\ mpc = "off"
    /\ task = <<>>
    /\ joined = {}
    /\ finished = <<>>
    /\ out = <<>>

Init ==
    /\ account = Account_new
    /\ pc = "idle"
    /\ calls = 0
    /\ clone = <<>>
    /\ i = 0
    /\ snap = <<>>
    /\ prior = <<>>
    /\ probe = <<>>
    /\ MainOff

\* Account::add_transaction, by the caller that builds the history before it
\* processes it (populate_accounts, the unit tests), up to n records.
push(n, tx) ==
    /\ pc = "idle"
    /\ calls = 0
    /\ Len(account.transactions) < n
    /\ account' = [account EXCEPT !.transactions = Append(@, tx)]
    /\ UNCHANGED <<pc, calls, clone, i, snap, prior, probe>>
    /\ UNCHANGED mvars

add_transaction(tx) ==
    push(MaxLen, tx)

add_transaction_long(tx) ==
    push(LongLen, tx)

\* A process_transactions() that starts every call from zero balances.
process_begin_resets ==
    /\ pc = "idle"
    /\ calls < MaxCalls
    /\ clone' = account.transactions
    /\ i' = 0
    /\ pc' = "loop"
    /\ calls' = calls + 1
    /\ account' = [account EXCEPT !.available = 0, !.held = 0, !.total = 0]
    /\ snap' = <<Bal(account')>>
    /\ prior' = snap
    /\ UNCHANGED probe
    /\ UNCHANGED mvars

\* process_transactions(): the clone of the history, before the loop.
process_begin ==
    /\ pc = "idle"
    /\ calls < MaxCalls
    /\ clone' = account.transactions
    /\ i' = 0
    /\ pc' = "loop"
    /\ calls' = calls + 1
    /\ snap' = <<Bal(account)>>
    /\ prior' = snap
    /\ UNCHANGED <<account, probe>>
    /\ UNCHANGED mvars

\* A loop that walks the clone from its last record to its first.
process_step_reversed ==
    /\ pc = "loop"
    /\ i < Len(clone)
    /\ account' = Dispatch(account, clone[Len(clone) - i])
    /\ i' = i + 1
    /\ snap' = Append(snap, Bal(account'))
    /\ UNCHANGED <<pc, calls, clone, prior, probe>>
    /\ UNCHANGED mvars

\* One iteration of the loop: the next record is dispatched on its kind.
process_step ==
    /\ pc = "loop"
    /\ i < Len(clone)
    /\ account' = Dispatch(account, clone[i + 1])
    /\ i' = i + 1
    /\ snap' = Append(snap, Bal(account'))
    /\ UNCHANGED <<pc, calls, clone, prior, probe>>
    /\ UNCHANGED mvars

\* The end of process_transactions(): self.round() after the loop.
process_round ==
    /\ pc = "loop"
    /\ i = Len(clone)
    /\ account' = round(account)
    /\ pc' = "idle"
    /\ UNCHANGED <<calls, clone, i, snap, prior, probe>>
    /\ UNCHANGED mvars

Next ==
    \/ \E tx \in Records : add_transaction(tx)
    \/ process_begin
    \/ process_step
    \/ process_round

Spec == Init /\ [][Next]_vars

\* The same ledger with histories of up to LongLen records.
NextLong ==
    \/ \E tx \in Records : add_transaction_long(tx)
    \/ process_begin
    \/ process_step
    \/ process_round

SpecLong == Init /\ [][NextLong]_vars

\* The ids a caller looks up: those the records carry and one none carries.
LookupIds == TxIds \cup {3}

\* A direct call of get_transaction_by_id on the history built so far, as
\* test_get_transaction_by_id makes it.
lookup(id) ==
    /\ pc = "idle"
    /\ calls = 0
    /\ probe' = <<id, get_transaction_by_id(account, id)>>
    /\ UNCHANGED <<account, pc, calls, clone, i, snap, prior>>
    /\ UNCHANGED mvars

\* A ledger that is built and looked up in, and not processed.
NextLookup ==
    \/ \E tx \in Records : add_transaction(tx)
    \/ \E id \in LookupIds : lookup(id)

SpecLookup == Init /\ [][NextLookup]_vars

\* ------------------------------------------------------- the run of main

\* The largest magnitude a Decimal holds, scaled down to the integers of the
\* model: the sum of two values in range is still an integer of the model.
DecimalMax == 1000000000

\* The records of the input file of a run: a Deposit, a Deposit of the
\* largest amount a Decimal holds, a Withdrawal, a Dispute and a Chargeback
\* with the amount left empty, and a record of unrecognized kind.
MainRecords ==
    {[type |-> "deposit", id |-> 1, amount |-> 10],
     [type |-> "deposit", id |-> 2, amount |-> DecimalMax],
     [type |-> "withdrawal", id |-> 2, amount |-> 10],
     [type |-> "dispute", id |-> 1, amount |-> 0],
     [type |-> "chargeback", id |-> 1, amount |-> 0],
     Transaction_new(1)}

\* A row that csv fails to deserialize.
BadRow == [ok |-> FALSE, client |-> 0, tx |-> Transaction_new(0)]

\* The rows of an input file: well-formed ones, and the malformed one.
Rows ==
    [ok : {TRUE}, client : MainClients, tx : MainRecords] \cup {BadRow}

\* The input files of up to MaxRows rows.
Inputs == UNION {[1..n -> Rows] : n \in 0..MaxRows}

\* No ledger is driven directly: the state of the single ledger stays put.
LedgerOff ==
    /\ account = Account_new
    /\ pc = "idle"
    /\ calls = 0
    /\ clone = <<>>
    /\ i = 0
    /\ snap = <<>>
    /\ prior = <<>>
    /\ probe = <<>>

\* main, before populate_accounts reads the first row.
InitMain ==
    /\ input \in Inputs
    /\ accounts = <<>>
    /\ mpc = "populate"
    /\ task = <<>>
    /\ joined = {}
    /\ finished = <<>>
    /\ out = <<>>
    /\ LedgerOff

\* accounts.entry(c).or_insert(Account::new(c))
Entry(c) ==
    IF c \in DOMAIN accounts THEN accounts[c] ELSE Account_new

\* The map m with key c bound to acc.
Insert(m, c, acc) ==
    [d \in DOMAIN m \cup {c} |-> IF d = c THEN acc ELSE m[d]]

\* The lowest client of a non-empty set: the order a BTreeMap iterates in.
First(S) == CHOOSE c \in S : \A d \in S : c <= d

\* populate_accounts, one row: a row that deserializes is appended to the
\* account of its client, created on first sight; any other is dropped.
populate_row ==
    /\ mpc = "populate"
    /\ input # <<>>
    /\ LET row == Head(input)
       IN  accounts' =
               IF row.ok
               THEN Insert(accounts, row.client,
                           [Entry(row.client) EXCEPT
                              !.transactions = Append(@, row.tx)])
               ELSE accounts
    /\ input' = Tail(input)
    /\ UNCHANGED <<mpc, task, joined, finished, out>>
    /\ UNCHANGED lvars

\* populate_accounts returns at the end of the file; process_transactions
\* opens the thread scope, with no thread spawned yet.
populate_end ==
    /\ mpc = "populate"
    /\ input = <<>>
    /\ mpc' = IF DOMAIN accounts = {} THEN "write" ELSE "spawn"
    /\ task' = [c \in DOMAIN accounts |->
                   [pc |-> "none", clone |-> <<>>, i |-> 0]]
    /\ UNCHANGED <<input, accounts, joined, finished, out>>
    /\ UNCHANGED lvars

\* The clients no thread has been spawned for.
Unspawned == {c \in DOMAIN task : task[c].pc = "none"}

\* One iteration of the spawn loop: a thread for the next account, in key
\* order; after the last, the join loop.
spawn ==
    /\ mpc = "spawn"
    /\ LET c == First(Unspawned)
       IN  /\ task' = [task EXCEPT ![c].pc = "start"]
           /\ mpc' = IF Unspawned = {c} THEN "join" ELSE "spawn"
    /\ UNCHANGED <<input, accounts, joined, finished, out>>
    /\ UNCHANGED lvars

\* The thread of client c enters Account::process_transactions: the clone.
task_begin(c) ==
    /\ c \in DOMAIN task
    /\ task[c].pc = "start"
    /\ task' = [task EXCEPT ![c] = [pc |-> "loop",
                                    clone |-> accounts[c].transactions,
                                    i |-> 0]]
    /\ UNCHANGED <<input, accounts, mpc, joined, finished, out>>
    /\ UNCHANGED lvars

\* The values the arithmetic of the operation that tx selects computes on
\* acc: the operands of its += and -=, and of the guard of withdrawal.
Computed(acc, tx) ==
    LET found == get_transaction_by_id(acc, tx.id)
        amt == IF found = <<>> THEN 0 ELSE found[1].amount
    IN  CASE tx.type = "deposit" ->
                 {acc.available + tx.amount, acc.total + tx.amount}
          [] tx.type = "withdrawal" ->
                 {acc.available - tx.amount} \cup
                 (IF acc.available - tx.amount > 0
                  THEN {acc.total - tx.amount} ELSE {})
          [] tx.type = "dispute" /\ found # <<>> ->
                 {acc.available - amt, acc.held + amt}
          [] tx.type = "resolve" /\ found # <<>> ->
                 {acc.available + amt, acc.held - amt}
          [] tx.type = "chargeback" /\ found # <<>> ->
                 {acc.held - amt, acc.total - amt}
          [] OTHER -> {}

\* Decimal's += and -= panic when the result leaves the range of Decimal.
Overflows(acc, tx) ==
    \E v \in Computed(acc, tx) : v > DecimalMax \/ v < 0 - DecimalMax

\* A thread that dispatches into the account of the first client, as if
\* every closure had captured the same account.
task_step_crosses(c) ==
    /\ c \in DOMAIN task
    /\ task[c].pc = "loop"
    /\ task[c].i < Len(task[c].clone)
    /\ LET tx == task[c].clone[task[c].i + 1]
           d == First(DOMAIN accounts)
       IN  IF Overflows(accounts[d], tx)
           THEN /\ accounts' = accounts
                /\ task' = [task EXCEPT ![c].pc = "panicked"]
           ELSE /\ accounts' = [accounts EXCEPT ![d] = Dispatch(@, tx)]
                /\ task' = [task EXCEPT ![c].i = @ + 1]
    /\ UNCHANGED <<input, mpc, joined, finished, out>>
    /\ UNCHANGED lvars

\* The thread of client c, one iteration of the loop on its own account;
\* the thread panics when the arithmetic of the operation overflows.
task_step(c) ==
    /\ c \in DOMAIN task
    /\ task[c].pc = "loop"
    /\ task[c].i < Len(task[c].clone)
    /\ LET tx == task[c].clone[task[c].i + 1]
       IN  IF Overflows(accounts[c], tx)
           THEN /\ accounts' = accounts
                /\ task' = [task EXCEPT ![c].pc = "panicked"]
           ELSE /\ accounts' = [accounts EXCEPT ![c] = Dispatch(@, tx)]
                /\ task' = [task EXCEPT ![c].i = @ + 1]
    /\ UNCHANGED <<input, mpc, joined, finished, out>>
    /\ UNCHANGED lvars

\* The thread of client c rounds its account and ends.
task_round(c) ==
    /\ c \in DOMAIN task
    /\ task[c].pc = "loop"
    /\ task[c].i = Len(task[c].clone)
    /\ accounts' = [accounts EXCEPT ![c] = round(@)]
    /\ task' = [task EXCEPT ![c].pc = "done"]
    /\ finished' = Append(finished, c)
    /\ UNCHANGED <<input, mpc, joined, out>>
    /\ UNCHANGED lvars

\* A join loop that does not wait for the thread to end.
join_nowait ==
    /\ mpc = "join"
    /\ LET c == First(DOMAIN task \ joined)
       IN  /\ joined' = joined \cup {c}
           /\ mpc' = IF joined' = DOMAIN task THEN "write" ELSE "join"
    /\ UNCHANGED <<input, accounts, task, finished, out>>
    /\ UNCHANGED lvars

\* One iteration of the join loop: handle.join() returns once the thread of
\* the next handle, in spawn order, has ended, and unwrap() panics if that
\* thread panicked; after the last handle, the scope closes and main goes
\* on to write_account_summary.
join ==
    /\ mpc = "join"
    /\ LET c == First(DOMAIN task \ joined)
       IN  /\ task[c].pc \in {"done", "panicked"}
           /\ joined' = joined \cup {c}
           /\ mpc' = IF task[c].pc = "panicked" THEN "panicked"
                     ELSE IF joined' = DOMAIN task THEN "write" ELSE "join"
    /\ UNCHANGED <<input, accounts, task, finished, out>>
    /\ UNCHANGED lvars

RECURSIVE Summary(_)
\* The rows write_account_summary serializes for the clients S, in key
\* order: the account without its transactions.
Summary(S) ==
    IF S = {} THEN <<>>
    ELSE LET c == First(S)
         IN  <<[client |-> c, balances |-> Bal(accounts[c])]>>
                 \o Summary(S \ {c})

write_account_summary ==
    /\ mpc = "write"
    /\ out' = Summary(DOMAIN accounts)
    /\ mpc' = "done"
    /\ UNCHANGED <<input, accounts, task, joined, finished>>
    /\ UNCHANGED lvars

\* The main thread.
MainThread ==
    \/ populate_row
    \/ populate_end
    \/ spawn
    \/ join
    \/ write_account_summary

\* The thread spawned for client c.
Task(c) ==
    \/ task_begin(c)
    \/ task_step(c)
    \/ task_round(c)

NextMain ==
    \/ populate_row
    \/ populate_end
    \/ spawn
    \/ \E c \in MainClients : task_begin(c)
    \/ \E c \in MainClients : task_step(c)
    \/ \E c \in MainClients : task_round(c)
    \/ join
    \/ write_account_summary

SpecMain == InitMain /\ [][NextMain]_vars

\* A run of main under a scheduler that lets every thread that can take a
\* step take one in the end.
FairMain ==
    /\ InitMain
    /\ [][NextMain]_vars
    /\ WF_vars(MainThread)
    /\ \A c \in MainClients : WF_vars(Task(c))

RECURSIVE Replay(_, _, _)
\* The loop of process_transactions over txs from position k on.
Replay(acc, txs, k) ==
    IF k > Len(txs) THEN acc
    ELSE Replay(Dispatch(acc, txs[k]), txs, k + 1)

\* Account::process_transactions, run from start to end with nothing else
\* in between.
process_transactions(acc) ==
    round(Replay(acc, acc.transactions, 1))

\* ------------------------------------------------------------ vocabulary

\* The loop of the call in progress has dispatched at least k records.
Dispatched(k) == calls >= 1 /\ i >= k /\ Len(snap) = i + 1

\* The first call on the fresh ledger: the clone is in the loop.
FirstCallRunning == calls = 1 /\ pc = "loop"

\* The first call on the fresh ledger has returned.
FirstCallDone == calls = 1 /\ pc = "idle"

Abs(x) == IF x < 0 THEN -x ELSE x

\* total - (available + held)
Drift(acc) == acc.total - (acc.available + acc.held)

\* ---------------------------------------------------------------- claims

\* C1, as stated: from a fresh ledger, total = available + held after each
\* record of process_transactions() and at the end of process_transactions().
C1_Original ==
    calls <= 1 => Drift(account) = 0

\* C1, amended: from a fresh ledger, total = available + held exactly after
\* each record the loop applies or skips; at the end of the call, after each
\* balance is rounded to four digits on its own, total differs from
\* available + held by at most one unit of the fourth digit.
C1_Consistency ==
    /\ FirstCallRunning => Drift(account) = 0
    /\ FirstCallDone => Abs(Drift(account)) <= Ulp

\* C1 witness: the first call has returned; its last record left positive
\* balances with total = available + held, and rounding has separated total
\* from available + held.
C1_Witness ==
    /\ FirstCallDone
    /\ Drift(snap[i + 1]) = 0
    /\ snap[i + 1].available > 0
    /\ snap[i + 1].held > 0
    /\ Drift(account) # 0

\* C2, as stated: with non-negative amounts, available, held and total are
\* never negative, during and after process_transactions() on a fresh ledger.
C2_NonNegative ==
    calls <= 1 => account.available >= 0 /\ account.held >= 0 /\ account.total >= 0

\* C3: locked only ever goes from false to true, and only in the step that
\* dispatches a Chargeback record whose lookup by tx_id succeeds; no other
\* step, of this call or of a later one, changes it.
C3_LockedOneWay ==
    [][/\ account.locked => account'.locked
       /\ account'.locked # account.locked =>
            /\ pc = "loop"
            /\ i < Len(clone)
            /\ clone[i + 1].type = "chargeback"
            /\ get_transaction_by_id(account, clone[i + 1].id) # <<>>
            /\ i' = i + 1]_vars

\* C3 witness: the ledger entered a second call locked, dispatched a Deposit
\* in it, and is still locked.
C3_Witness ==
    /\ calls = 2
    /\ Dispatched(1)
    /\ snap[1].locked
    /\ clone[i].type = "deposit"
    /\ account.locked

\* C4: a Withdrawal is applied (available and total each less its amount,
\* held and locked as they were) exactly when available - amount > 0; if not,
\* the account is left as it is; either way the loop goes on to the next
\* record.
C4_WithdrawalGuard ==
    [][(pc = "loop" /\ i < Len(clone) /\ clone[i + 1].type = "withdrawal") =>
          /\ IF account.available - clone[i + 1].amount > 0
             THEN account' = [account EXCEPT
                                !.available = @ - clone[i + 1].amount,
                                !.total = @ - clone[i + 1].amount]
             ELSE account' = account
          /\ pc' = "loop"
          /\ i' = i + 1]_vars

\* C4 witness: a Withdrawal of exactly the available balance was skipped,
\* the balances are as before it, and a later record has been dispatched.
C4_Witness ==
    /\ Dispatched(2)
    /\ \E k \in 1..(i - 1) :
          /\ clone[k].type = "withdrawal"
          /\ snap[k].available = clone[k].amount
          /\ snap[k + 1] = snap[k]

\* Every record of the history is a Deposit or a Withdrawal.
OnlyMoney(txs) == \A k \in 1..Len(txs) : txs[k].type \in MoneyKinds

\* C5: after process_transactions() on a fresh ledger whose history holds
\* only Deposit and Withdrawal records, total = available and held = 0.
C5_NoDisputes ==
    (FirstCallDone /\ OnlyMoney(account.transactions)) =>
        account.total = account.available /\ account.held = 0

\* C5 witness: such a call has returned, one of its Withdrawals was applied
\* and the rounding at the end changed the balance.
C5_Witness ==
    /\ FirstCallDone
    /\ OnlyMoney(account.transactions)
    /\ \E k \in 1..i : clone[k].type = "withdrawal" /\ snap[k + 1] # snap[k]
    /\ account.available # snap[i + 1].available

\* The first Deposit or Withdrawal record of txs that carries id, as <<t>>,
\* or <<>> if there is none.
RECURSIVE FirstMoney(_, _, _)
FirstMoney(txs, id, k) ==
    IF k > Len(txs) THEN <<>>
    ELSE IF txs[k].id = id /\ txs[k].type \in MoneyKinds THEN <<txs[k]>>
    ELSE FirstMoney(txs, id, k + 1)

\* The effect the specification gives a Dispute, Resolve or Chargeback that
\* references an amount a.
RefEffect(kind, b, a) ==
    CASE kind = "dispute" ->
           [b EXCEPT !.available = @ - a, !.held = @ + a]
      [] kind = "resolve" ->
           [b EXCEPT !.available = @ + a, !.held = @ - a]
      [] kind = "chargeback" ->
           [b EXCEPT !.total = @ - a, !.held = @ - a, !.locked = TRUE]

\* C6, as stated: when a Deposit or Withdrawal with tx_id t was appended
\* before a Dispute, Resolve or Chargeback that carries t, the change that
\* record makes uses the amount of the earlier Deposit or Withdrawal.
C6_ReferencedAmount ==
    Dispatched(1) =>
        \A k \in 1..i :
            (/\ clone[k].type \in RefKinds
             /\ FirstMoney(SubSeq(clone, 1, k - 1), clone[k].id, 1) # <<>>) =>
                snap[k + 1] =
                    RefEffect(clone[k].type, snap[k],
                              FirstMoney(clone, clone[k].id, 1)[1].amount)

\* C7: a Dispute referencing t followed at once by a Resolve referencing t
\* leaves available, held, total and locked as they were before the Dispute.
C7_DisputeResolveRoundTrip ==
    Dispatched(2) =>
        \A k \in 2..i :
            (/\ clone[k - 1].type = "dispute"
             /\ clone[k].type = "resolve"
             /\ clone[k].id = clone[k - 1].id) =>
                snap[k + 1] = snap[k - 1]

\* C7 witness: such a pair, referencing a Deposit, was dispatched; the
\* Dispute moved funds from available to held and the Resolve moved them
\* back.
C7_Witness ==
    /\ Dispatched(2)
    /\ \E k \in 2..i :
          /\ clone[k - 1].type = "dispute"
          /\ clone[k].type = "resolve"
          /\ clone[k].id = clone[k - 1].id
          /\ get_transaction_by_id(account, clone[k].id)[1].type = "deposit"
          /\ snap[k].held > snap[k - 1].held
          /\ snap[k + 1] = snap[k - 1]

\* C8, as stated: after a Deposit with tx_id t and amount a, a Dispute
\* referencing t followed by a Chargeback referencing t leaves available
\* and total each a lower than before the Dispute, held as it was and
\* locked true.
C8_DisputeChargeback ==
    Dispatched(3) =>
        \A k \in 3..i :
            LET dep == FirstMoney(SubSeq(clone, 1, k - 2), clone[k].id, 1)
            IN  (/\ clone[k - 1].type = "dispute"
                 /\ clone[k].type = "chargeback"
                 /\ clone[k].id = clone[k - 1].id
                 /\ dep # <<>>
                 /\ dep[1].type = "deposit") =>
                    snap[k + 1] =
                        [snap[k - 1] EXCEPT !.available = @ - dep[1].amount,
                                            !.total = @ - dep[1].amount,
                                            !.locked = TRUE]

\* C9, as stated: a Dispute, Resolve or Chargeback whose tx_id no Deposit or
\* Withdrawal record of the ledger carries leaves available, held, total
\* and locked unchanged.
C9_UnknownReference ==
    Dispatched(1) =>
        \A k \in 1..i :
            (/\ clone[k].type \in RefKinds
             /\ FirstMoney(clone, clone[k].id, 1) = <<>>) =>
                snap[k + 1] = snap[k]

\* C10, as stated: when a Dispute, Resolve or Chargeback with tx_id t comes
\* in the history before the Deposit or Withdrawal with tx_id t, its lookup
\* returns not-found and it changes neither the balances nor locked.
C10_ReferenceBeforeTarget ==
    Dispatched(1) =>
        \A k \in 1..i :
            (/\ clone[k].type \in RefKinds
             /\ FirstMoney(SubSeq(clone, 1, k - 1), clone[k].id, 1) = <<>>
             /\ FirstMoney(clone, clone[k].id, 1) # <<>>) =>
                /\ get_transaction_by_id(account, clone[k].id) = <<>>
                /\ snap[k + 1] = snap[k]

\* The guard of withdrawal() passes for record tx from balances b.
GuardPasses(b, tx) == b.available - tx.amount > 0

\* The second call on the ledger has returned.
SecondCallDone == calls = 2 /\ pc = "idle" /\ Len(prior) = Len(snap)

\* available, held and total of the account are twice those of b.
Doubled(b) ==
    /\ account.available = 2 * b.available
    /\ account.held = 2 * b.held
    /\ account.total = 2 * b.total

\* C11, as stated: after a second process_transactions() call, available,
\* held and total are each exactly twice their value after the first call.
C11_Original ==
    SecondCallDone => Doubled(snap[1])

\* C11, amended: after a second process_transactions() call, available, held
\* and total are each exactly twice their value after the first call,
\* provided every Withdrawal of the history passed or failed its guard
\* alike in the two calls.
C11_DoubledEffects ==
    (/\ SecondCallDone
     /\ \A k \in 1..Len(clone) :
           clone[k].type = "withdrawal" =>
               (GuardPasses(prior[k], clone[k]) <=> GuardPasses(snap[k], clone[k])))
        => Doubled(snap[1])

\* C11 witness: a second call has returned; a Withdrawal was applied in both
\* calls, the first call ended with a positive balance that its rounding
\* had changed, and the balances are twice those.
C11_Witness ==
    /\ SecondCallDone
    /\ \E k \in 1..Len(clone) :
          /\ clone[k].type = "withdrawal"
          /\ GuardPasses(prior[k], clone[k])
          /\ GuardPasses(snap[k], clone[k])
    /\ snap[1].available > 0
    /\ snap[1].available # prior[Len(prior)].available
    /\ Doubled(snap[1])

\* The account a run of process_transactions on its own gives client c: a
\* fresh account with the history of c, processed from start to end.
Sequential(c) ==
    process_transactions(
        [Account_new EXCEPT !.transactions = accounts[c].transactions])

\* A step that changes the account of a client is a step of the thread of
\* this client, and changes neither the account nor the thread of another.
Confined ==
    \A c \in DOMAIN accounts :
       accounts'[c] # accounts[c] =>
          /\ task'[c] # task[c]
          /\ \A d \in DOMAIN accounts \ {c} :
                /\ accounts'[d] = accounts[d]
                /\ task'[d] = task[d]

\* C12: once the threads of a run have been joined, every account holds the
\* available, held, total and locked (and the history) that processing this
\* account on its own, sequentially, gives, whatever the interleaving of
\* the threads and the order they finished in; and while threads run, an
\* account changes only in a step of the thread of its own client, which
\* changes no state of another thread.
C12_ParallelEqualsSequential ==
    /\ [](mpc \in {"write", "done"} =>
            \A c \in DOMAIN accounts : accounts[c] = Sequential(c))
    /\ [][(mpc \in {"spawn", "join"}) => Confined]_vars

\* C12 witness: a run with two accounts has been joined; the thread spawned
\* second finished first; one account holds a deposit, the other was locked
\* by a chargeback.
C12_Witness ==
    /\ mpc = "write"
    /\ finished = <<2, 1>>
    /\ \E c \in MainClients :
          /\ accounts[c].available > 0
          /\ accounts[3 - c].locked

\* C13: locked does not influence the balances: a record dispatched on a
\* locked account changes available, held and total exactly as it would
\* from the same balances and history with locked = false.
C13_LockedNotEnforced ==
    [][(pc = "loop" /\ i < Len(clone) /\ i' = i + 1 /\ account.locked) =>
          LET unlocked == Dispatch([account EXCEPT !.locked = FALSE],
                                   clone[i + 1])
          IN  /\ account'.available = unlocked.available
              /\ account'.held = unlocked.held
              /\ account'.total = unlocked.total]_vars

\* C13 witness: a Chargeback locked the account in this call, and a later
\* Withdrawal of the same call was applied to the locked account.
C13_Witness ==
    /\ Dispatched(2)
    /\ \E k \in 1..(i - 1) :
          /\ clone[k].type = "chargeback"
          /\ ~snap[k].locked
          /\ snap[k + 1].locked
    /\ clone[i].type = "withdrawal"
    /\ snap[i].locked
    /\ snap[i + 1].available < snap[i].available

\* C14: within one call the records are dispatched in insertion order, each
\* exactly once: add_transaction appends at the end, the loop starts at the
\* first record, each step dispatches the record that follows the last one
\* dispatched, and the call returns only after the last record.
C14_InsertionOrder ==
    [][/\ account'.transactions # account.transactions =>
            /\ pc = "idle"
            /\ Len(account'.transactions) = Len(account.transactions) + 1
            /\ SubSeq(account'.transactions, 1, Len(account.transactions))
                   = account.transactions
       /\ (pc = "idle" /\ pc' = "loop") => i' = 0
       /\ (pc = "loop" /\ i' # i) =>
            /\ i' = i + 1
            /\ i < Len(account.transactions)
            /\ account' = Dispatch(account, account.transactions[i + 1])
       /\ (pc = "loop" /\ pc' = "idle") =>
            i = Len(account.transactions)]_vars

\* C14 witness: a call has returned after three records; the first was a
\* Withdrawal, skipped for lack of funds, the second the Deposit that would
\* have funded it.
C14_Witness ==
    /\ pc = "idle"
    /\ calls = 1
    /\ i = 3
    /\ clone[1].type = "withdrawal"
    /\ snap[2] = snap[1]
    /\ clone[2].type = "deposit"
    /\ clone[2].amount > clone[1].amount

\* C15: a record of unrecognized kind leaves available, held, total and
\* locked unchanged and does not end the call: the loop goes on to the next
\* record, and returns only after the last one.
C15_UnrecognizedKind ==
    [][/\ (/\ pc = "loop"
           /\ i < Len(clone)
           /\ clone[i + 1].type \notin (MoneyKinds \cup RefKinds)) =>
              /\ Bal(account') = Bal(account)
              /\ pc' = "loop"
              /\ i' = i + 1
       /\ (pc = "loop" /\ pc' = "idle") => i = Len(clone)]_vars

\* C15 witness: a default-constructed record was dispatched and changed
\* nothing, and the Deposit after it was applied.
C15_Witness ==
    /\ Dispatched(2)
    /\ clone[i - 1] = Transaction_new(clone[i - 1].id)
    /\ snap[i] = snap[i - 1]
    /\ clone[i].type = "deposit"
    /\ snap[i + 1].available > snap[i].available

\* The result r of a lookup of id is the first record of txs that carries
\* id, and is not-found exactly when no record of txs carries it.
FirstMatch(txs, id, r) ==
    /\ r = <<>> <=> \A k \in 1..Len(txs) : txs[k].id # id
    /\ r # <<>> =>
          \E k \in 1..Len(txs) :
              /\ txs[k].id = id
              /\ r = <<txs[k]>>
              /\ \A j \in 1..(k - 1) : txs[j].id # id

\* C16: get_transaction_by_id(t) returns the record of lowest insertion
\* index among those whose tx_id is t, and not-found if and only if no
\* record of the history has tx_id t.
C16_FirstMatch ==
    [][probe' # probe =>
          FirstMatch(account.transactions, probe'[1], probe'[2])]_vars

\* C16 witness: two different records of the history carry the id looked
\* up, and the lookup returned the earlier one.
C16_Witness ==
    /\ probe # <<>>
    /\ \E j, k \in 1..Len(account.transactions) :
          /\ j < k
          /\ account.transactions[j].id = probe[1]
          /\ account.transactions[k].id = probe[1]
          /\ account.transactions[j] # account.transactions[k]
          /\ \A m \in 1..(j - 1) : account.transactions[m].id # probe[1]
          /\ probe[2] = <<account.transactions[j]>>

\* The thread of client c has been spawned and has not ended.
Running(c) == task[c].pc \in {"start", "loop"}

\* C17: the phases of a run follow one another: while a thread has been
\* spawned, every row of the input has been read and main is in its spawn
\* or join loop or past it, never in populate_accounts; the history of an
\* account is the one its thread cloned on entry, so nothing was appended
\* since; and write_account_summary begins, and writes, only when every
\* account has a thread that has ended and whose handle has been joined.
C17_PhaseOrdering ==
    /\ \A c \in DOMAIN task :
          task[c].pc # "none" => input = <<>> /\ mpc # "populate"
    /\ \A c \in DOMAIN task :
          task[c].pc \in {"loop", "done", "panicked"} =>
             accounts[c].transactions = task[c].clone
    /\ (\E c \in DOMAIN task : Running(c)) => mpc \in {"spawn", "join", "panicked"}
    /\ (mpc \in {"write", "done"} \/ out # <<>>) =>
          \A c \in DOMAIN accounts :
             /\ c \in DOMAIN task
             /\ task[c].pc = "done"
             /\ c \in joined

\* C17 witness: write_account_summary is about to begin in a run whose
\* input held rows of two clients: both threads have ended, in spawn order,
\* and both handles have been joined; each history holds what was read.
C17_Witness ==
    /\ mpc = "write"
    /\ out = <<>>
    /\ joined = MainClients
    /\ finished = <<1, 2>>
    /\ Len(accounts[1].transactions) = 2
    /\ Len(accounts[2].transactions) = 1

C19_NoDisputeState ==
    Dispatched(1) =>
        \A k \in 1..i :
            LET found == get_transaction_by_id(account, clone[k].id)
            IN  (clone[k].type \in RefKinds /\ found # <<>>) =>
                    snap[k + 1] =
                        RefEffect(clone[k].type, snap[k], found[1].amount)

\* C19 witness: two Disputes referencing the same Deposit of amount a were
\* dispatched one after the other and moved 2 * a from available to held.
C19_Witness ==
    /\ Dispatched(3)
    /\ clone[i].type = "dispute"
    /\ clone[i - 1].type = "dispute"
    /\ clone[i].id = clone[i - 1].id
    /\ LET found == get_transaction_by_id(account, clone[i].id)
       IN  /\ found[1].type = "deposit"
           /\ found[1].amount > 0
           /\ snap[i + 1].held = snap[i - 1].held + 2 * found[1].amount
           /\ snap[i + 1].available
                  = snap[i - 1].available - 2 * found[1].amount

\* C20: on a fresh ledger whose history holds only Deposits and Withdrawals,
\* available >= 0 and total >= 0 after every record and at the end, available
\* is strictly positive right after every Withdrawal that was applied, and
\* locked stays false.
C20_MoneyOnly ==
    (calls = 1 /\ OnlyMoney(clone)) =>
        /\ \A k \in 1..Len(snap) :
              /\ snap[k].available >= 0
              /\ snap[k].total >= 0
              /\ ~snap[k].locked
              /\ (/\ k > 1
                  /\ clone[k - 1].type = "withdrawal"
                  /\ snap[k] # snap[k - 1]) => snap[k].available > 0
        /\ account.available >= 0
        /\ account.total >= 0
        /\ ~account.locked

\* C20 witness: such a call has returned; it applied one Withdrawal and
\* skipped another.
C20_Witness ==
    /\ FirstCallDone
    /\ OnlyMoney(clone)
    /\ \E j, k \in 1..i :
          /\ clone[j].type = "withdrawal"
          /\ snap[j + 1].available < snap[j].available
          /\ clone[k].type = "withdrawal"
          /\ snap[k + 1] = snap[k]

====
